---- MODULE Spec2Model ----
(***************************************************************************)
(* State-machine model of four parts of the repository:                    *)
(*   - src/product.py: the account/tax resolution of product templates     *)
(*     (Template.get_account, Template.get_taxes) and the column migration *)
(*     of the two category-tax relation tables (init);                     *)
(*   - src/tryton/.../form_gtk/dictionary.py: the DictWidget of the GTK    *)
(*     client (rows of per-key entries over a dictionary field), and its   *)
(*     DictSelectionEntry (the combo box entry of a selection key);        *)
(*   - src/trytond/trytond/tests/tools.py: activate_modules.               *)
(* Each part has its own specification (SpecProduct, SpecMigration, Spec,  *)
(* SpecSelection, SpecTools); the variables of the other parts stay at     *)
(* their initial value.                                                    *)
(***************************************************************************)
EXTENDS Integers, Sequences, FiniteSets, TLC

VARIABLES
    db,        \* product.py: the stored templates and their category
    ret,       \* product.py: the outcome of the last getter call
    tables,    \* product.py: schema of the two category-tax relation tables
    history,   \* product.py: per table, one entry per init call
    self,      \* dictionary.py: the DictWidget and the GTK widgets it owns
    record,    \* dictionary.py: id of the screen's current record, or None
    values,    \* dictionary.py: per record, the value of the dictionary field
    field_keys, \* dictionary.py: field.keys, the key definitions known so far
    attrs,     \* dictionary.py: the view attributes of the widget
    last,      \* dictionary.py: what the last handler did (signals, writes)
    sel,       \* dictionary.py: a DictSelectionEntry and its last call
    act        \* tools.py: the run of activate_modules and the calls it made

productVars == <<db, ret>>
migrationVars == <<tables, history>>
widgetVars == <<self, record, values, field_keys, attrs, last>>
selectionVars == <<sel>>
toolsVars == <<act>>
vars == <<db, ret, tables, history, self, record, values, field_keys, attrs,
          last, sel, act>>

\* Python's None / a false (unset) Many2One.
None == "None"

(***************************************************************************)
(* src/product.py : Template.get_account / Template.get_taxes              *)
(***************************************************************************)

\* Number of product templates in the database (ids 1..NTemplates).
NTemplates == 2
\* Longest list of ids handed to a getter in one call.
MaxBatch == 2

TemplateIds == 1..NTemplates

\* Accounts a template / a category may point to (None: no account).
TemplateAccounts == {None, "acc_t"}
CategoryAccounts == {None, "acc_c"}
\* Many2Many values (ordered lists of tax ids).
TemplateTaxes == {<<>>, <<"tax_t">>}
CategoryTaxes == {<<>>, <<"tax_c1", "tax_c2">>}

AccountFunctionNames == {"account_expense_used", "account_revenue_used"}
TaxFunctionNames == {"customer_taxes_used", "supplier_taxes_used"}

\* product.name of template i.
ProductName(i) == <<"product", i>>

\* Rows of product.category (one category, the parent of every template).
Categories ==
    [account_expense : CategoryAccounts, account_revenue : CategoryAccounts,
     customer_taxes : CategoryTaxes, supplier_taxes : CategoryTaxes]

\* Rows of product.template.
Templates ==
    [account_category : BOOLEAN,
     account_expense : TemplateAccounts, account_revenue : TemplateAccounts,
     taxes_category : BOOLEAN,
     customer_taxes : TemplateTaxes, supplier_taxes : TemplateTaxes]

\* Rows that carry accounting accounts only (no tax is linked).
NoTaxes(r) == r.customer_taxes = <<>> /\ r.supplier_taxes = <<>>
\* Rows that carry taxes only (no account is linked).
NoAccounts(r) == r.account_expense = None /\ r.account_revenue = None

\* The databases the getters are run on: the account fields and the tax
\* fields are varied one group at a time (a getter reads only one group).
Databases ==
    { d \in [category : Categories, template : [TemplateIds -> Templates]] :
        \/ /\ NoTaxes(d.category)
           /\ \A i \in TemplateIds :
                NoTaxes(d.template[i]) /\ ~d.template[i].taxes_category
        \/ /\ NoAccounts(d.category)
           /\ \A i \in TemplateIds :
                NoAccounts(d.template[i]) /\ ~d.template[i].account_category }

\* Lists of distinct elements of S of length at most n.
RECURSIVE SeqsUpTo(_, _)
SeqsUpTo(S, n) ==
    IF n = 0 THEN {<<>>}
    ELSE LET shorter == SeqsUpTo(S, n - 1)
             longer == { <<s, x>> \in shorter \X S :
                            \A k \in 1..Len(s) : s[k] # x }
         IN shorter \cup { Append(p[1], p[2]) : p \in longer }

Batches == SeqsUpTo(TemplateIds, MaxBatch)

\* name[:-5]: the function field's name without its "_used" suffix.
StripUsed(name) ==
    CASE name = "account_expense_used" -> "account_expense"
      [] name = "account_revenue_used" -> "account_revenue"
      [] name = "customer_taxes_used" -> "customer_taxes"
      [] name = "supplier_taxes_used" -> "supplier_taxes"

\* res[key] = value of a Python dict.
DictSet(d, key, value) ==
    [k \in DOMAIN d \cup {key} |-> IF k = key THEN value ELSE d[k]]

\* self.browse(...)[i]: the template row with its id, name and category.
Browse(i) ==
    [id |-> i, name |-> ProductName(i), row |-> db.template[i],
     category |-> db.category]

AccountOfLocalOnly(product, name) == product.row[name]

\* The account one product resolves to, None when the code raises.
AccountOf(product, name) ==
    IF product.row[name] # None
    THEN product.row[name]
    ELSE product.category[name]

\* The loop of get_account over the browsed ids.
RECURSIVE GetAccountLoop(_, _, _)
GetAccountLoop(ids, name, res) ==
    IF ids = <<>>
    THEN [kind |-> "return", res |-> res]
    ELSE LET product == Browse(Head(ids))
             account == AccountOf(product, name)
         IN IF account # None
            THEN GetAccountLoop(Tail(ids), name, DictSet(res, product.id, account))
            ELSE [kind |-> "raise", error |-> "missing_account",
                  args |-> <<product.name, product.id>>]

get_account(ids, name) == GetAccountLoop(ids, StripUsed(name), <<>>)

TaxesOfFallback(product, name) ==
    IF product.row.taxes_category \/ product.row[name] = <<>>
    THEN product.category[name]
    ELSE product.row[name]

\* The taxes one product resolves to.
TaxesOf(product, name) ==
    IF product.row.taxes_category
    THEN product.category[name]
    ELSE product.row[name]

RECURSIVE GetTaxesLoop(_, _, _)
GetTaxesLoop(ids, name, res) ==
    IF ids = <<>>
    THEN [kind |-> "return", res |-> res]
    ELSE LET product == Browse(Head(ids))
         IN GetTaxesLoop(Tail(ids), name,
                DictSet(res, product.id, TaxesOf(product, name)))

get_taxes(ids, name) == GetTaxesLoop(ids, StripUsed(name), <<>>)

NoCall == [op |-> "none"]

\* The ORM serves one request at a time: a getter is called once the
\* previous call has returned to its caller.
CallGetAccount ==
    /\ ret = NoCall
    /\ \E ids \in Batches, name \in AccountFunctionNames :
         ret' = [op |-> "get_account", ids |-> ids, name |-> name,
                 out |-> get_account(ids, name)]
    /\ UNCHANGED <<db, migrationVars, widgetVars, selectionVars, toolsVars>>

CallGetTaxes ==
    /\ ret = NoCall
    /\ \E ids \in Batches, name \in TaxFunctionNames :
         ret' = [op |-> "get_taxes", ids |-> ids, name |-> name,
                 out |-> get_taxes(ids, name)]
    /\ UNCHANGED <<db, migrationVars, widgetVars, selectionVars, toolsVars>>

\* The caller takes the result (or the error) of the call.
Return ==
    /\ ret # NoCall
    /\ ret' = NoCall
    /\ UNCHANGED <<db, migrationVars, widgetVars, selectionVars, toolsVars>>

(***************************************************************************)
(* src/product.py : CategoryCustomerTax.init / CategorySupplierTax.init    *)
(***************************************************************************)

\* Number of init calls (module updates) followed per table.
MaxInitCalls == 3

RelTables == {"product_category_customer_taxes_rel",
              "product_category_supplier_taxes_rel"}

\* A table as the TableHandler sees it.
NoTable == [exists |-> FALSE, columns |-> {}, indexes |-> {}, fks |-> {}]

\* The table as version 1.6 created it (the column was named 'product').
LegacyTables ==
    { [exists |-> TRUE, columns |-> {"id", "product", "tax"},
       indexes |-> ix, fks |-> fk \cup {"tax"}] :
         ix \in SUBSET {"product"}, fk \in SUBSET {"product"} }

\* The table as the current version creates it.
CurrentTable ==
    [exists |-> TRUE, columns |-> {"id", "category", "tax"},
     indexes |-> {"category"}, fks |-> {"category", "tax"}]

InitialTables == LegacyTables \cup {NoTable, CurrentTable}

\* TableHandler(cursor, self): creates the table when it does not exist.
TableHandler(t) ==
    IF t.exists THEN t ELSE [t EXCEPT !.exists = TRUE, !.columns = {"id"}]

column_exist(t, column) == column \in t.columns

index_action_remove(t, column) == [t EXCEPT !.indexes = @ \ {column}]

drop_fk(t, column) == [t EXCEPT !.fks = @ \ {column}]

column_rename(t, old, new) ==
    IF old \in t.columns /\ new \notin t.columns
    THEN [t EXCEPT !.columns = (@ \ {old}) \cup {new}]
    ELSE t

\* ModelSQL.init: a column per field, the index of select=1, the foreign keys.
super_init(t) ==
    [t EXCEPT !.columns = @ \cup {"category", "tax"},
              !.indexes = @ \cup {"category"},
              !.fks = @ \cup {"category", "tax"}]

\* The DDL steps of one init call, in the order of the code.
MigrationStepsRenameFirst == <<"column_rename", "index_action_remove", "drop_fk">>

MigrationSteps == <<"index_action_remove", "drop_fk", "column_rename">>

ApplyStep(t, step) ==
    CASE step = "index_action_remove" -> index_action_remove(t, "product")
      [] step = "drop_fk" -> drop_fk(t, "product")
      [] step = "column_rename" -> column_rename(t, "product", "category")
      [] step = "super_init" -> super_init(t)

RECURSIVE ApplySteps(_, _)
ApplySteps(t, steps) ==
    IF steps = <<>> THEN t
    ELSE ApplySteps(ApplyStep(t, Head(steps)), Tail(steps))

\* Whether init migrates the table it was handed.
NeedsMigrationAlways(table) == TRUE

NeedsMigration(table) == column_exist(table, "product")

\* The steps init(cursor, module_name) runs on a table.
InitSteps(table) ==
    (IF NeedsMigration(table) THEN MigrationSteps ELSE <<>>)
        \o <<"super_init">>

ModelInit(name) ==
    /\ Len(history[name]) < MaxInitCalls
    /\ LET table == TableHandler(tables[name])
           steps == InitSteps(table)
           after == ApplySteps(table, steps)
       IN /\ tables' = [tables EXCEPT ![name] = after]
          /\ history' = [history EXCEPT ![name] =
                Append(@, [before |-> tables[name], steps |-> steps,
                           after |-> after])]
    /\ UNCHANGED <<productVars, widgetVars, selectionVars, toolsVars>>

CategoryCustomerTax_init == ModelInit("product_category_customer_taxes_rel")

CategorySupplierTax_init == ModelInit("product_category_supplier_taxes_rel")

(***************************************************************************)
(* src/tryton/gui/window/view_form/view/form_gtk/dictionary.py             *)
(***************************************************************************)

\* Largest n_rows of the gtk.Table that is followed.
MaxRows == 5
\* Longest list of ids handed to add_new_keys.
MaxNewKeys == 2

\* Ids of the records the screen can show: "r1" is being edited, "r2" is a
\* record whose state makes the field read-only.
RecordIds == {"r1", "r2"}
EditableIds == {"r1"}

\* Python values of the dictionary: None, str, int (the keys of type char
\* and integer are followed).
PyNone == <<"None">>
PyStr(text) == <<"str", text>>
PyInt(n) == <<"int", n>>

\* Keys defined in the schema model, and a key the schema does not define.
SchemaKeys == {"a", "b"}
AllKeys == SchemaKeys \cup {"z"}
\* The order of sorted() on the key names.
KeyOrder == <<"a", "b", "z">>

\* field.keys[key]: the definition the schema model gives for a key.
KeyDef(key) ==
    CASE key = "a" -> [type_ |-> "integer", string |-> "A",
                       domain |-> "[['b', '=', 'x']]"]
      [] key = "b" -> [type_ |-> "char", string |-> "B",
                       domain |-> None]

\* Values a key takes in a record.
KeyValues(key) ==
    CASE key = "a" -> {PyNone, PyInt(1)}
      [] key = "b" -> {PyStr(""), PyStr("x")}
      [] key = "z" -> {PyStr("x")}

\* Dictionary values of the field.
Dicts ==
    UNION { { d \in [S -> UNION { KeyValues(k) : k \in S }] :
                \A k \in S : d[k] \in KeyValues(k) } : S \in SUBSET AllKeys }

\* The value of the read-only record.
ReadOnlyValue == [k \in {"a", "z"} |-> IF k = "a" THEN PyInt(1) ELSE PyStr("x")]

\* Texts the user types into an entry of a type.
EntryTexts(type_) ==
    CASE type_ = "char" -> {"", "x"}
      [] type_ = "integer" -> {"", "1"}

\* The view attributes 'create' and 'delete' (attrs.get(..., True)).
AttrsChoices == [create : BOOLEAN, delete : BOOLEAN]

\* locale.atoi on the texts above (ValueError otherwise).
IsNumber(txt) == txt \in {"0", "1"}
NumberOf(txt) == CASE txt = "0" -> 0 [] txt = "1" -> 1
\* locale.format('%d', value, True)
FormatInt(n) == CASE n = 0 -> "0" [] n = 1 -> "1"

\* PYSONDecoder().decode of the domains the definitions carry.
PYSONDecode(txt) ==
    CASE txt = "[]" -> <<>>
      [] txt = "[['b', '=', 'x']]" -> << <<"b", "=", PyStr("x")>> >>

\* value.get(name) of a Python dict.
DictGet(d, name) == IF name \in DOMAIN d THEN d[name] ELSE PyNone

\* eval_domain: every clause (name, operator, operand) holds in the context.
eval_domain(domain, context) ==
    \A i \in 1..Len(domain) :
        LET clause == domain[i] IN
        CASE clause[2] = "=" -> DictGet(context, clause[1]) = clause[3]
          [] clause[2] = "!=" -> DictGet(context, clause[1]) # clause[3]

\* d without key (del d[key]).
DictDel(d, key) == [k \in DOMAIN d \ {key} |-> d[k]]

EmptyDict == [k \in {} |-> PyNone]

\* The keys of S in sorted order.
SortedKeys(S) == SelectSeq(KeyOrder, LAMBDA k : k \in S)

\* The GTK widgets add_line creates when the table has n rows.
LabelOf(n) == [kind |-> "label", row |-> n]
AlignmentOf(n) == [kind |-> "alignment", row |-> n]
RemoveButtonOf(n) == [kind |-> "remove", row |-> n]

\* DictEntry.__init__ / create_widget: a new, empty, editable entry.
NewEntry(key) ==
    [name |-> key, type_ |-> KeyDef(key).type_, text |-> "",
     readonly |-> FALSE, invalid |-> FALSE]

\* get_value of DictEntry and DictIntegerEntry.
EntryGetValue(entry) ==
    CASE entry.type_ = "char" -> PyStr(entry.text)
      [] entry.type_ = "integer" ->
            IF entry.text # "" /\ IsNumber(entry.text)
            THEN PyInt(NumberOf(entry.text)) ELSE PyNone

\* The text set_value(value) of DictEntry and DictIntegerEntry puts into
\* the entry.
EntrySetValueText(entry, value) ==
    CASE entry.type_ = "char" ->
            IF value = PyNone \/ value = PyStr("") THEN "" ELSE value[2]
      [] entry.type_ = "integer" ->
            IF value # PyNone THEN FormatInt(value[2]) ELSE ""

\* DictWidget.__init__
NewWidget ==
    [fields |-> EmptyDict, buttons |-> EmptyDict, rows |-> EmptyDict,
     table |-> [n_rows |-> 1, children |-> {}],
     destroyed |-> {},
     sensitive |-> EmptyDict,
     but_add |-> TRUE,
     wid_text |-> [sensitive |-> TRUE, editable |-> TRUE],
     _readonly |-> FALSE,
     _record_id |-> None]

\* The run of one handler: the widget (w), field.keys (keys), the records'
\* values (vals), the current record and the view attributes, and what the
\* handler did so far: send_modified calls (sm), the dictionaries handed to
\* field.set_client (sc), the entries handed to idle_add (idle), the widgets
\* removed from the table (removed), the add_line calls with the table row
\* each attached to (added), an exception that ended it (raised).
Start(rec) ==
    [w |-> self, keys |-> field_keys, vals |-> values, vals_in |-> values,
     record |-> rec, attrs |-> attrs, sm |-> 0, sc |-> <<>>, idle |-> <<>>,
     removed |-> {}, added |-> <<>>, raised |-> FALSE]

\* The same, when the record's value was changed before the handler runs.
StartWith(rec, d) ==
    [Start(rec) EXCEPT !.vals[rec] = d, !.vals_in[rec] = d]

send_modified(st) == [st EXCEPT !.sm = @ + 1]

get_value(w) == [k \in DOMAIN w.fields |-> EntryGetValue(w.fields[k])]

\* set_value: field.set_client(self.record, self.get_value())
set_value(st) ==
    IF st.record = None
    THEN [st EXCEPT !.raised = TRUE]
    ELSE [st EXCEPT !.vals[st.record] = get_value(st.w),
                    !.sc = Append(@, get_value(st.w))]

\* (a removal that forgets 'del self.buttons[key]')
RemoveRowKeepsButton(st, key) ==
    LET gone == { st.w.rows[key][i] : i \in 1..3 }
    IN [st EXCEPT !.w.fields = DictDel(@, key),
                  !.w.rows = DictDel(@, key),
                  !.w.table.children = @ \ gone,
                  !.w.destroyed = @ \cup gone,
                  !.removed = @ \cup gone]

\* (a removal that also takes the row off the table's row count)
RemoveRowShrinksTable(st, key) ==
    LET gone == { st.w.rows[key][i] : i \in 1..3 }
    IN [st EXCEPT !.w.fields = DictDel(@, key),
                  !.w.buttons = DictDel(@, key),
                  !.w.rows = DictDel(@, key),
                  !.w.sensitive = DictDel(@, st.w.buttons[key]),
                  !.w.table.children = @ \ gone,
                  !.w.table.n_rows = @ - 1,
                  !.w.destroyed = @ \cup gone,
                  !.removed = @ \cup gone]

\* _sig_remove up to 'del self.rows[key]'.
RemoveRow(st, key) ==
    LET gone == { st.w.rows[key][i] : i \in 1..3 }
    IN [st EXCEPT !.w.fields = DictDel(@, key),
                  !.w.buttons = DictDel(@, key),
                  !.w.rows = DictDel(@, key),
                  !.w.sensitive = DictDel(@, st.w.buttons[key]),
                  !.w.table.children = @ \ gone,
                  !.w.destroyed = @ \cup gone,
                  !.removed = @ \cup gone]

\* The part of _sig_remove under 'if modified'.
AfterRemoveWritesStale(st, before, modified) ==
    IF modified
    THEN [send_modified(st) EXCEPT
            !.vals[st.record] = get_value(before.w),
            !.sc = Append(@, get_value(before.w))]
    ELSE st

AfterRemoveAlwaysWrites(st, before, modified) == set_value(send_modified(st))

AfterRemove(st, before, modified) ==
    IF modified THEN set_value(send_modified(st)) ELSE st

_sig_remove(st, key, modified) ==
    AfterRemove(RemoveRow(st, key), st, modified)

\* _sig_remove(None, key, modified=False) for every key of a set.
RECURSIVE RemoveAll(_, _)
RemoveAll(st, S) ==
    IF S = {} THEN st
    ELSE LET key == CHOOSE k \in S : TRUE
         IN RemoveAll(_sig_remove(st, key, FALSE), S \ {key})

_set_button_sensitive(st) ==
    [st EXCEPT
        !.w.but_add = ~st.w._readonly /\ st.attrs.create,
        !.w.sensitive = [b \in DOMAIN st.w.sensitive |->
                            ~st.w._readonly /\ st.attrs.delete]]

_readonly_set(st, readonly) ==
    LET s1 == _set_button_sensitive([st EXCEPT !.w._readonly = readonly])
    IN [s1 EXCEPT
          !.w.fields = [k \in DOMAIN s1.w.fields |->
                          [s1.w.fields[k] EXCEPT !.readonly = readonly]],
          !.w.wid_text = [sensitive |-> ~readonly, editable |-> ~readonly]]

add_line(st, key) ==
    LET n_rows == st.w.table.n_rows
        label == LabelOf(n_rows)
        alignment == AlignmentOf(n_rows)
        remove_but == RemoveButtonOf(n_rows)
    IN [st EXCEPT
          !.w.fields = DictSet(@, key, NewEntry(key)),
          !.w.table = [n_rows |-> n_rows + 1,
                       children |-> @.children
                                     \cup {label, alignment, remove_but}],
          !.w.rows = DictSet(@, key, <<label, alignment, remove_but>>),
          !.w.buttons = DictSet(@, key, remove_but),
          !.w.sensitive = DictSet(@, remove_but, TRUE),
          !.added = Append(@, [key |-> key, row |-> n_rows])]

InvalidClassSticky(entry, key_domain, value) ==
    entry.invalid \/ ~eval_domain(key_domain, value)

\* widget_class(widget.widget, 'invalid', not eval_domain(key_domain, value))
InvalidClass(entry, key_domain, value) == ~eval_domain(key_domain, value)

\* One iteration of the loop of display over sorted(value.items()).
DisplayKey(st, key, value) ==
    IF key \notin st.keys THEN st
    ELSE LET s1 == IF key \notin DOMAIN st.w.fields THEN add_line(st, key)
                   ELSE st
             widget == s1.w.fields[key]
             key_domain == PYSONDecode(
                 IF KeyDef(key).domain # None /\ KeyDef(key).domain # ""
                 THEN KeyDef(key).domain ELSE "[]")
         IN [s1 EXCEPT !.w.fields[key] =
                [widget EXCEPT
                    !.text = EntrySetValueText(widget, value[key]),
                    !.readonly = s1.w._readonly,
                    !.invalid = InvalidClass(widget, key_domain, value)]]

RECURSIVE DisplayLoop(_, _, _)
DisplayLoop(st, keys, value) ==
    IF keys = <<>> THEN st
    ELSE DisplayLoop(DisplayKey(st, Head(keys), value), Tail(keys), value)

StaleKeysNone(st, value) == {}

\* The displayed keys display removes after its loop.
StaleKeys(st, value) == DOMAIN st.w.fields \ DOMAIN value

\* field.add_keys: the schema model is asked for the definitions.
add_keys(st, names) == [st EXCEPT !.keys = @ \cup (names \cap SchemaKeys)]

\* Widget.display (super): the read-only state comes from the field's
\* states, and is True without a field.
SuperDisplay(st, readonly) ==
    _readonly_set(st, IF st.record = None THEN TRUE ELSE readonly)

\* display() from 'if self.field is None' on.
DisplayBody(st) ==
    IF st.record = None THEN st
    ELSE LET s1 == IF st.record # st.w._record_id
                   THEN [RemoveAll(st, DOMAIN st.w.fields)
                            EXCEPT !.w._record_id = st.record]
                   ELSE st
             value == s1.vals[s1.record]
             new_key_names == DOMAIN value \ s1.keys
             s2 == IF new_key_names # {} THEN add_keys(s1, new_key_names)
                   ELSE s1
             s3 == DisplayLoop(s2, SortedKeys(DOMAIN value), value)
         IN _set_button_sensitive(RemoveAll(s3, StaleKeys(s3, value)))

display(st, readonly) == DisplayBody(SuperDisplay(st, readonly))

\* field.add_new_keys: the names of the schema records ids, in the order
\* the server returns them; their definitions are added to field.keys.
field_add_new_keys(st, ids) ==
    [st EXCEPT !.keys = @ \cup { ids[i] : i \in 1..Len(ids) }]

\* (a loop that asks the focus for every key it adds)
RECURSIVE AddNewKeysLoopFocusAll(_, _, _)
AddNewKeysLoopFocusAll(st, new_keys, focus) ==
    IF new_keys = <<>> THEN st
    ELSE LET key_name == Head(new_keys)
         IN IF key_name \notin DOMAIN st.w.fields
            THEN AddNewKeysLoopFocusAll(
                    [add_line(st, key_name) EXCEPT !.idle = Append(@, key_name)],
                    Tail(new_keys), TRUE)
            ELSE AddNewKeysLoopFocusAll(st, Tail(new_keys), focus)

RECURSIVE AddNewKeysLoop(_, _, _)
AddNewKeysLoop(st, new_keys, focus) ==
    IF new_keys = <<>> THEN st
    ELSE LET key_name == Head(new_keys)
         IN IF key_name \notin DOMAIN st.w.fields
            THEN LET s1 == add_line(st, key_name)
                     s2 == IF ~focus THEN [s1 EXCEPT !.idle = Append(@, key_name)]
                           ELSE s1
                 IN AddNewKeysLoop(s2, Tail(new_keys), TRUE)
            ELSE AddNewKeysLoop(st, Tail(new_keys), focus)

add_new_keys(st, ids) ==
    AddNewKeysLoop(send_modified(field_add_new_keys(st, ids)), ids, FALSE)

\* What the last handler did (key: the key or ids it was called with; for
\* display, the _record_id it found; wrote: a record's value differs from
\* the one the handler found; rows_touched: a row was added or removed).
Idle == [op |-> "none", key |-> None, sm |-> 0, sc |-> <<>>, idle |-> <<>>,
         removed |-> {}, added |-> <<>>, raised |-> FALSE, wrote |-> FALSE,
         rows_touched |-> FALSE]

\* The handler's run becomes the new state.
Finish(op, key, st) ==
    /\ st.w.table.n_rows <= MaxRows
    /\ self' = st.w
    /\ values' = st.vals
    /\ field_keys' = st.keys
    /\ last' = [op |-> op, key |-> key, sm |-> st.sm, sc |-> st.sc,
                idle |-> st.idle, removed |-> st.removed,
                added |-> st.added, raised |-> st.raised, wrote |-> st.vals # st.vals_in,
                rows_touched |->
                    \/ st.w.rows # self.rows
                    \/ st.w.buttons # self.buttons
                    \/ DOMAIN st.w.fields # DOMAIN self.fields
                    \/ st.w.table # self.table
                    \/ st.w.destroyed # self.destroyed]

\* The read-only states the field's states give for a record.
ReadonlyStates(rec) == IF rec \in EditableIds THEN BOOLEAN ELSE {TRUE}

\* The screen shows another record (or none) and displays it: display().
SwitchRecord ==
    /\ \E r \in (RecordIds \cup {None}) \ {record} :
          /\ record' = r
          /\ \E readonly \in ReadonlyStates(r) :
                Finish("display", self._record_id,
                       display(Start(r), readonly))
    /\ UNCHANGED <<attrs, productVars, migrationVars, selectionVars,
                 toolsVars>>

\* The value of the current record changes (a reload, an on_change, another
\* view) and the screen displays the record: display().
RecordChanged ==
    /\ record \in EditableIds
    /\ \E d \in Dicts \ {values[record]}, readonly \in ReadonlyStates(record) :
          Finish("display", self._record_id,
                 display(StartWith(record, d), readonly))
    /\ UNCHANGED <<record, attrs, productVars, migrationVars, selectionVars,
                 toolsVars>>

\* The screen displays the current record again: display().
Display ==
    /\ \E readonly \in ReadonlyStates(record) :
          Finish("display", self._record_id,
                 display(Start(record), readonly))
    /\ UNCHANGED <<record, attrs, productVars, migrationVars, selectionVars,
                 toolsVars>>

\* The user clicks the remove button of a row: _sig_remove(button, key).
ClickRemove ==
    /\ \E key \in DOMAIN self.buttons :
          /\ self.sensitive[self.buttons[key]]
          /\ Finish("_sig_remove", key, _sig_remove(Start(record), key, TRUE))
    /\ UNCHANGED <<record, attrs, productVars, migrationVars, selectionVars,
                 toolsVars>>

\* The user picks schema records in the search window or the completion:
\* add_new_keys(ids).
AddNewKeys ==
    /\ record # None
    /\ self.wid_text.editable \/ self.but_add
    /\ \E ids \in SeqsUpTo(SchemaKeys, MaxNewKeys) \ {<<>>} :
          Finish("add_new_keys", ids, add_new_keys(Start(record), ids))
    /\ UNCHANGED <<record, attrs, productVars, migrationVars, selectionVars,
                 toolsVars>>

\* The user types into an entry and leaves it: the key press sends the
\* modification and _focus_out calls set_value().
EditEntry ==
    /\ record # None
    /\ \E key \in DOMAIN self.fields :
       \E text \in EntryTexts(self.fields[key].type_) :
          /\ ~self.fields[key].readonly
          /\ text # self.fields[key].text
          /\ LET st == [Start(record) EXCEPT !.w.fields[key].text = text]
             IN Finish("set_value", key, set_value(send_modified(st)))
    /\ UNCHANGED <<record, attrs, productVars, migrationVars, selectionVars,
                 toolsVars>>

(***************************************************************************)
(* src/trytond/trytond/tests/tools.py : activate_modules                   *)
(***************************************************************************)

\* Number of activate_modules calls that are followed.
MaxCalls == 2
\* Longest list of module names handed to activate_modules.
MaxModules == 2

\* Module names: two modules of the database and a name of no module.
KnownModules == {"m1", "m2"}
ModuleNames == KnownModules \cup {"mx"}

\* Lists over S of length at most n.
RECURSIVE ListsUpTo(_, _)
ListsUpTo(S, n) ==
    IF n = 0 THEN {<<>>}
    ELSE LET shorter == ListsUpTo(S, n - 1)
         IN shorter \cup { Append(p[1], p[2]) : p \in shorter \X S }

\* The modules argument: one name (a str) or a list of names.
ModulesArgs ==
    { [kind |-> "str", name |-> m] : m \in ModuleNames }
        \cup { [kind |-> "list", names |-> l] :
                  l \in ListsUpTo(ModuleNames, MaxModules) }

\* The setup_function argument: None, a function, or a value that is not
\* callable.
SetupArgs ==
    {[given |-> FALSE, callable |-> FALSE, qualname |-> None],
     [given |-> TRUE, callable |-> TRUE, qualname |-> "Case.setup"],
     [given |-> TRUE, callable |-> FALSE, qualname |-> None]}

\* The cache_file_name argument: None or a str; a str is the list of its
\* parts, so <<>> is the empty str.
CacheFileNames == {PyNone, <<>>, <<"cache">>}

\* '-'.join(modules)
RECURSIVE Join(_)
Join(modules) ==
    IF modules = <<>> THEN <<>>
    ELSE IF Len(modules) = 1 THEN <<modules[1]>>
    ELSE <<Head(modules), "-">> \o Join(Tail(modules))

\* if isinstance(modules, str): modules = [modules]
ModulesList(modules) ==
    IF modules.kind = "str" THEN <<modules.name>> ELSE modules.names

\* cache_name as activate_modules computes it.
CacheName(modules, setup_function, cache_file_name) ==
    LET cache_name == IF cache_file_name # PyNone /\ cache_file_name # <<>>
                      THEN cache_file_name
                      ELSE Join(ModulesList(modules))
    IN IF setup_function.callable
       THEN cache_name \o <<"-", setup_function.qualname>>
       ELSE cache_name

\* Module.find([('name', 'in', modules)]): the records of the named modules.
Module_find(modules) ==
    { modules[i] : i \in 1..Len(modules) } \cap KnownModules

\* No call of activate_modules is running.
NoRun ==
    [pc |-> "idle", n |-> 0, modules |-> <<>>,
     setup_function |-> [given |-> FALSE, callable |-> FALSE,
                         qualname |-> None],
     cache_file_name |-> PyNone, cache_name |-> <<>>, calls |-> <<>>,
     hit |-> FALSE, failed |-> None]

\* The run calls function f with argument arg.
Called(run, f, arg) == [run EXCEPT !.calls = Append(@, [f |-> f, arg |-> arg])]

\* The run ends with an exception raised in step f.
Raised(run, f) == [run EXCEPT !.pc = "raised", !.failed = f]

\* (a run that never calls the setup function)
StepAfterUpgradeNoSetup(run) == "backup_db_cache"

\* The step after the upgrade wizard.
StepAfterUpgrade(run) ==
    IF run.setup_function.callable THEN "setup_function"
    ELSE "backup_db_cache"

\* activate_modules is called: up to the call of restore_db_cache.
CallActivateModules ==
    /\ act.pc = "idle"
    /\ act.n < MaxCalls
    /\ \E modules \in ModulesArgs, setup_function \in SetupArgs,
          cache_file_name \in CacheFileNames :
          LET run == [pc |-> "restore_db_cache", n |-> act.n + 1,
                      modules |-> ModulesList(modules),
                      setup_function |-> setup_function,
                      cache_file_name |-> cache_file_name,
                      cache_name |-> CacheName(modules, setup_function,
                                               cache_file_name),
                      calls |-> <<>>, hit |-> FALSE, failed |-> None]
          IN act' = IF setup_function.given /\ ~setup_function.callable
                    THEN Raised(run, "assert")
                    ELSE run
    /\ UNCHANGED <<productVars, migrationVars, widgetVars, selectionVars>>

\* if restore_db_cache(cache_name): return _get_config()
RestoreDbCache ==
    /\ act.pc = "restore_db_cache"
    /\ LET run == Called(act, "restore_db_cache", act.cache_name)
       IN \/ act' = [Called(run, "_get_config", None) EXCEPT
                        !.pc = "returned", !.hit = TRUE]
          \/ act' = [run EXCEPT !.pc = "drop_create"]
          \/ act' = Raised(run, "restore_db_cache")
    /\ UNCHANGED <<productVars, migrationVars, widgetVars, selectionVars>>

\* drop_create()
DropCreate ==
    /\ act.pc = "drop_create"
    /\ LET run == Called(act, "drop_create", None)
       IN \/ act' = [run EXCEPT !.pc = "activate"]
          \/ act' = Raised(run, "drop_create")
    /\ UNCHANGED <<productVars, migrationVars, widgetVars, selectionVars>>

\* cfg = _get_config() up to Module.click(records, 'activate')
Activate ==
    /\ act.pc = "activate"
    /\ LET run == Called(Called(act, "_get_config", None), "Module.find",
                         act.modules)
           records == Module_find(act.modules)
       IN IF Cardinality(records) # Len(act.modules)
          THEN act' = Raised(run, "assert")
          ELSE LET clicked == Called(run, "Module.click", records)
               IN \/ act' = [clicked EXCEPT !.pc = "upgrade"]
                  \/ act' = Raised(clicked, "Module.click")
    /\ UNCHANGED <<productVars, migrationVars, widgetVars, selectionVars>>

\* Wizard('ir.module.activate_upgrade').execute('upgrade')
Upgrade ==
    /\ act.pc = "upgrade"
    /\ LET run == Called(act, "Wizard.execute", "upgrade")
       IN \/ act' = [run EXCEPT !.pc = StepAfterUpgrade(run)]
          \/ act' = Raised(run, "Wizard.execute")
    /\ UNCHANGED <<productVars, migrationVars, widgetVars, selectionVars>>

\* setup_function(cfg)
SetupFunction ==
    /\ act.pc = "setup_function"
    /\ LET run == Called(act, "setup_function", "cfg")
       IN \/ act' = [run EXCEPT !.pc = "backup_db_cache"]
          \/ act' = Raised(run, "setup_function")
    /\ UNCHANGED <<productVars, migrationVars, widgetVars, selectionVars>>

\* backup_db_cache(cache_name); return cfg
BackupDbCache ==
    /\ act.pc = "backup_db_cache"
    /\ LET run == Called(act, "backup_db_cache", act.cache_name)
       IN \/ act' = [run EXCEPT !.pc = "returned"]
          \/ act' = Raised(run, "backup_db_cache")
    /\ UNCHANGED <<productVars, migrationVars, widgetVars, selectionVars>>

\* The caller takes the configuration (or the exception); the next test
\* may call activate_modules.
Done ==
    /\ act.pc \in {"returned", "raised"}
    /\ act' = [NoRun EXCEPT !.n = act.n]
    /\ UNCHANGED <<productVars, migrationVars, widgetVars, selectionVars>>

(***************************************************************************)
(* dictionary.py : DictSelectionEntry                                      *)
(***************************************************************************)

\* Longest selection list of a key definition.
MaxSelection == 2

\* Characters of the names and of the typed texts; a text is a sequence of
\* characters.
Chars == {"A", "B", "a", "b"}
\* str.lower() on a character.
LowerChar(c) == CASE c = "A" -> "a" [] c = "B" -> "b" [] OTHER -> c
\* The code point order of the characters.
CodePoint(c) == CASE c = "A" -> 65 [] c = "B" -> 66 [] c = "a" -> 97
                  [] c = "b" -> 98

\* Names of the selection items: the empty name, two names that differ in
\* case only, and a name that extends another one.
SelectionNames == {<<>>, <<"A">>, <<"a">>, <<"a", "b">>}
\* Values of the selection items (the empty string is a false value).
SelectionValues == {"", "v1", "v2"}
\* Values handed to set_value: also None and a value of no item.
SetValues == SelectionValues \cup {None, "v3"}
\* Texts the user types into the combo box entry.
TypedTexts == SelectionNames \cup {<<"b">>, <<"A", "B">>}

\* definition['selection']: lists of (value, name); definition['sorted'].
Definitions ==
    [selection : ListsUpTo(SelectionValues \X SelectionNames, MaxSelection),
     sorted : BOOLEAN]

\* txt.lower()
LowerText(txt) == [i \in 1..Len(txt) |-> LowerChar(txt[i])]

\* txt[:n]
Prefix(txt, n) == SubSeq(txt, 1, IF n < Len(txt) THEN n ELSE Len(txt))

\* x < y on str (code point order, a proper prefix is smaller).
RECURSIVE TextLess(_, _)
TextLess(x, y) ==
    IF y = <<>> THEN FALSE
    ELSE IF x = <<>> THEN TRUE
    ELSE IF Head(x) # Head(y) THEN CodePoint(Head(x)) < CodePoint(Head(y))
    ELSE TextLess(Tail(x), Tail(y))

\* selection.sort(key=operator.itemgetter(1)): a stable sort on the name.
RECURSIVE InsertByName(_, _)
InsertByName(sorted, item) ==
    IF sorted = <<>> THEN <<item>>
    ELSE IF TextLess(item[2], Head(sorted)[2]) THEN <<item>> \o sorted
    ELSE <<Head(sorted)>> \o InsertByName(Tail(sorted), item)

RECURSIVE SortByName(_)
SortByName(selection) ==
    IF selection = <<>> THEN <<>>
    ELSE InsertByName(SortByName(SubSeq(selection, 1, Len(selection) - 1)),
                      selection[Len(selection)])

\* d[key] = value on a dict kept as its list of items in insertion order.
ItemsSet(items, key, value) ==
    IF \E i \in 1..Len(items) : items[i][1] = key
    THEN [i \in 1..Len(items) |->
            IF items[i][1] = key THEN <<key, value>> ELSE items[i]]
    ELSE Append(items, <<key, value>>)

\* The loop of create_widget that fills self._selection.
RECURSIVE SelectionLoop(_, _)
SelectionLoop(selection, _selection) ==
    IF selection = <<>> THEN _selection
    ELSE SelectionLoop(Tail(selection),
            ItemsSet(_selection, Head(selection)[2], Head(selection)[1]))

\* create_widget: the definition's list is sorted in place when 'sorted'
\* is set, and self._selection maps '' to None and every name to its value.
create_widget(definition) ==
    LET selection == IF definition.sorted
                     THEN SortByName(definition.selection)
                     ELSE definition.selection
    IN [definition |-> [definition EXCEPT !.selection = selection],
        _selection |-> SelectionLoop(selection, << <<<<>>, None>> >>),
        text |-> <<>>,
        by |-> "create_widget", arg |-> None,
        got |-> [read |-> FALSE, value |-> None]]

\* bool(val) of a value.
Truthy(val) == val # None /\ val # ""

\* The loop of get_value over self._selection.items().
RECURSIVE GetValueLoop(_, _, _)
GetValueLoop(items, text, value) ==
    IF items = <<>> THEN value
    ELSE LET txt == Head(items)[1]
             val == Head(items)[2]
         IN IF ~Truthy(val) THEN GetValueLoop(Tail(items), text, value)
            ELSE IF LowerText(Prefix(txt, Len(text))) = LowerText(text)
            THEN IF Len(txt) = Len(text) THEN val
                 ELSE GetValueLoop(Tail(items), text, val)
            ELSE GetValueLoop(Tail(items), text, value)

\* DictSelectionEntry.get_value
SelectionGetValue(entry) ==
    IF entry.text # <<>> THEN GetValueLoop(entry._selection, entry.text, None)
    ELSE None

\* dict(self.definition['selection']).get(value, ''): the name of the last
\* item with the value.
RECURSIVE ValuesGet(_, _, _)
ValuesGet(selection, value, default) ==
    IF selection = <<>> THEN default
    ELSE ValuesGet(Tail(selection), value,
            IF Head(selection)[1] = value THEN Head(selection)[2] ELSE default)

\* DictSelectionEntry.set_value
SelectionSetValue(entry, value) ==
    [entry EXCEPT !.text = ValuesGet(entry.definition.selection, value, <<>>)]

\* display() hands a value to the entry: set_value(value).
SetValue ==
    /\ \E value \in SetValues :
          sel' = [SelectionSetValue(sel, value) EXCEPT
                    !.by = "set_value", !.arg = value,
                    !.got = [read |-> FALSE, value |-> None]]
    /\ UNCHANGED <<productVars, migrationVars, widgetVars, toolsVars>>

\* The user types a text into the entry.
TypeText ==
    /\ \E text \in TypedTexts :
          sel' = [sel EXCEPT !.text = text, !.by = "typed", !.arg = text,
                             !.got = [read |-> FALSE, value |-> None]]
    /\ UNCHANGED <<productVars, migrationVars, widgetVars, toolsVars>>

\* The widget reads the entry: get_value().
GetValue ==
    /\ ~sel.got.read
    /\ sel' = [sel EXCEPT !.got = [read |-> TRUE,
                                   value |-> SelectionGetValue(sel)]]
    /\ UNCHANGED <<productVars, migrationVars, widgetVars, toolsVars>>

(***************************************************************************)
(* Specifications                                                          *)
(***************************************************************************)

ProductIdle ==
    /\ db = [category |-> [account_expense |-> None, account_revenue |-> None,
                           customer_taxes |-> <<>>, supplier_taxes |-> <<>>],
             template |-> [i \in TemplateIds |->
                 [account_category |-> FALSE, account_expense |-> None,
                  account_revenue |-> None, taxes_category |-> FALSE,
                  customer_taxes |-> <<>>, supplier_taxes |-> <<>>]]]
    /\ ret = NoCall

MigrationIdle ==
    /\ tables = [n \in RelTables |-> CurrentTable]
    /\ history = [n \in RelTables |-> <<>>]

WidgetIdle ==
    /\ self = NewWidget
    /\ record = None
    /\ values = [r \in RecordIds |-> EmptyDict]
    /\ field_keys = {}
    /\ attrs = [create |-> TRUE, delete |-> TRUE]
    /\ last = Idle

SelectionIdle == sel = create_widget([selection |-> <<>>, sorted |-> TRUE])

ToolsIdle == act = NoRun

InitProduct ==
    /\ db \in Databases
    /\ ret = NoCall
    /\ MigrationIdle
    /\ WidgetIdle
    /\ SelectionIdle
    /\ ToolsIdle

NextProduct == CallGetAccount \/ CallGetTaxes \/ Return

SpecProduct == InitProduct /\ [][NextProduct]_vars

InitMigration ==
    /\ tables \in [RelTables -> InitialTables]
    /\ history = [n \in RelTables |-> <<>>]
    /\ ProductIdle
    /\ WidgetIdle
    /\ SelectionIdle
    /\ ToolsIdle

NextMigration == CategoryCustomerTax_init \/ CategorySupplierTax_init

SpecMigration == InitMigration /\ [][NextMigration]_vars

\* The widget after its construction, on a screen without a record.
Init ==
    /\ self = NewWidget
    /\ record = None
    /\ values \in { v \in [RecordIds -> Dicts] :
                       \A r \in RecordIds \ EditableIds : v[r] = ReadOnlyValue }
    /\ field_keys = {}
    /\ attrs \in AttrsChoices
    /\ last = Idle
    /\ ProductIdle
    /\ MigrationIdle
    /\ SelectionIdle
    /\ ToolsIdle

Next ==
    \/ SwitchRecord
    \/ RecordChanged
    \/ Display
    \/ ClickRemove
    \/ AddNewKeys
    \/ EditEntry

Spec == Init /\ [][Next]_vars

\* A DictSelectionEntry after its construction for a key definition.
InitSelection ==
    /\ \E definition \in Definitions : sel = create_widget(definition)
    /\ ProductIdle
    /\ MigrationIdle
    /\ WidgetIdle
    /\ ToolsIdle

NextSelection == SetValue \/ TypeText \/ GetValue

SpecSelection == InitSelection /\ [][NextSelection]_vars

\* Before the first call of activate_modules.
InitTools ==
    /\ act = NoRun
    /\ ProductIdle
    /\ MigrationIdle
    /\ WidgetIdle
    /\ SelectionIdle

NextTools ==
    \/ CallActivateModules
    \/ RestoreDbCache
    \/ DropCreate
    \/ Activate
    \/ Upgrade
    \/ SetupFunction
    \/ BackupDbCache
    \/ Done

SpecTools == InitTools /\ [][NextTools]_vars

(***************************************************************************)
(* Properties of src/product.py                                            *)
(***************************************************************************)

\* The stored field a function field reads.
FieldOf(name) == StripUsed(name)

\* C1 (as stated): a returned account is the category's account when the
\* template's account_category flag is set or the template has no local
\* account of that kind, and the template's local account otherwise.
C1_UsedAccountRule ==
    (ret.op = "get_account" /\ ret.out.kind = "return") =>
        \A k \in 1..Len(ret.ids) :
            LET t == db.template[ret.ids[k]]
                f == FieldOf(ret.name)
            IN ret.out.res[ret.ids[k]] =
                 IF t.account_category \/ t[f] = None
                 THEN db.category[f] ELSE t[f]

\* C2 (as stated): the returned taxes are the category's taxes when the
\* taxes_category flag is set or the template has no local taxes of that
\* kind, and the template's local taxes otherwise.
C2_UsedTaxesWithFallback ==
    ret.op = "get_taxes" =>
        /\ ret.out.kind = "return"
        /\ \A k \in 1..Len(ret.ids) :
            LET t == db.template[ret.ids[k]]
                f == FieldOf(ret.name)
            IN ret.out.res[ret.ids[k]] =
                 IF t.taxes_category \/ t[f] = <<>>
                 THEN db.category[f] ELSE t[f]

\* C2 (amended): get_taxes always returns a mapping over exactly the ids it
\* was given; the taxes of a template are the list of the category's taxes
\* when taxes_category is set and the list of the template's local taxes
\* otherwise, also when that list is empty.
C2_UsedTaxesByFlag ==
    ret.op = "get_taxes" =>
        /\ ret.out.kind = "return"
        /\ DOMAIN ret.out.res = { ret.ids[k] : k \in 1..Len(ret.ids) }
        /\ \A k \in 1..Len(ret.ids) :
            LET t == db.template[ret.ids[k]]
                f == FieldOf(ret.name)
            IN ret.out.res[ret.ids[k]] =
                 IF t.taxes_category THEN db.category[f] ELSE t[f]

\* C2 witness: get_taxes answered for a template without local taxes whose
\* flag is unset while the category has taxes, and for one whose flag is set.
C2_Witness ==
    /\ ret.op = "get_taxes"
    /\ Len(ret.ids) = 2
    /\ LET f == FieldOf(ret.name)
           t1 == db.template[ret.ids[1]]
           t2 == db.template[ret.ids[2]]
       IN /\ ~t1.taxes_category /\ t1[f] = <<>> /\ db.category[f] # <<>>
          /\ t2.taxes_category /\ t2[f] # <<>>
          /\ ret.out.res[ret.ids[1]] = <<>>
          /\ ret.out.res[ret.ids[2]] = db.category[f]

\* Neither the template nor its category defines the account of field f.
MissingAccount(i, f) == db.template[i][f] = None /\ db.category[f] = None

\* C3: get_account raises 'missing_account' exactly when some template of
\* the batch has neither a local nor a category account of the kind; the
\* error carries the name and id of such a product, and a call that raises
\* returns no result mapping.
C3_MissingAccountError ==
    ret.op = "get_account" =>
        LET f == FieldOf(ret.name)
            missing == { k \in 1..Len(ret.ids) : MissingAccount(ret.ids[k], f) }
        IN /\ (ret.out.kind = "raise") <=> (missing # {})
           /\ ret.out.kind \in {"raise", "return"}
           /\ ret.out.kind = "raise" =>
                /\ ret.out.error = "missing_account"
                /\ \E k \in missing :
                     ret.out.args = <<ProductName(ret.ids[k]), ret.ids[k]>>
                /\ "res" \notin DOMAIN ret.out
           /\ ret.out.kind = "return" =>
                DOMAIN ret.out.res = { ret.ids[k] : k \in 1..Len(ret.ids) }

\* C3 witness: a batch whose first template resolves through its category
\* and whose second template has no account at all: the call raised for the
\* second product.
C3_Witness ==
    /\ ret.op = "get_account"
    /\ Len(ret.ids) = 2
    /\ LET f == FieldOf(ret.name)
       IN /\ ~MissingAccount(ret.ids[1], f)
          /\ MissingAccount(ret.ids[2], f)
          /\ ret.out.kind = "raise"
          /\ ret.out.args = <<ProductName(ret.ids[2]), ret.ids[2]>>

\* Position of a step in the steps of one init call (0: not run).
StepPos(steps, step) ==
    IF \E k \in 1..Len(steps) : steps[k] = step
    THEN CHOOSE k \in 1..Len(steps) : steps[k] = step
    ELSE 0

\* Number of times a step was run in one init call.
StepCount(steps, step) == Cardinality({ k \in 1..Len(steps) : steps[k] = step })

\* C4: an init call on a table with a legacy 'product' column removes the
\* index, then drops the foreign key, then renames the column, and runs the
\* framework's init last.
C4_MigrationOrder ==
    \A n \in RelTables : \A c \in 1..Len(history[n]) :
        LET h == history[n][c] IN
        "product" \in h.before.columns =>
            /\ \A s \in {"index_action_remove", "drop_fk", "column_rename",
                         "super_init"} : StepCount(h.steps, s) = 1
            /\ StepPos(h.steps, "index_action_remove") < StepPos(h.steps, "drop_fk")
            /\ StepPos(h.steps, "drop_fk") < StepPos(h.steps, "column_rename")
            /\ StepPos(h.steps, "column_rename") < StepPos(h.steps, "super_init")
            /\ StepPos(h.steps, "super_init") = Len(h.steps)

\* C4 witness: both hooks have migrated a legacy table.
C4_Witness ==
    \A n \in RelTables :
        /\ Len(history[n]) >= 1
        /\ "product" \in history[n][1].before.columns
        /\ "category" \in history[n][1].after.columns

\* Calls of one table's init that ran a given step.
CallsRunning(n, step) ==
    { c \in 1..Len(history[n]) : StepCount(history[n][c].steps, step) > 0 }

\* C5: per table, each of the three migration steps runs at most once, and
\* only in a first call that sees a 'product' column; any other call runs
\* super().init alone; a later call leaves the schema of the first call.
C5_MigrationOnce ==
    \A n \in RelTables :
        /\ \A s \in {"index_action_remove", "drop_fk", "column_rename"} :
              /\ Cardinality(CallsRunning(n, s)) <= 1
              /\ \A c \in CallsRunning(n, s) :
                    c = 1 /\ "product" \in history[n][1].before.columns
        /\ \A c \in 1..Len(history[n]) :
              (c > 1 \/ "product" \notin history[n][1].before.columns) =>
                  history[n][c].steps = <<"super_init">>
        /\ \A c \in 2..Len(history[n]) :
              history[n][c].after = history[n][1].after
        /\ Len(history[n]) >= 1 => "product" \notin tables[n].columns

\* C5 witness: init ran twice on a table that was legacy at the first call.
C5_Witness ==
    \E n \in RelTables :
        /\ Len(history[n]) >= 2
        /\ "product" \in history[n][1].before.columns
        /\ history[n][2].steps = <<"super_init">>
        /\ tables[n] = CurrentTable

(***************************************************************************)
(* Properties of dictionary.py                                             *)
(***************************************************************************)

\* display() has just returned for a record (a non-None field).
AfterDisplay ==
last.op = "display" /\ ~last.raised /\ record # None

\* The decoded domain of a key (the empty domain when it has none).
DomainOfKey(key) ==
    IF KeyDef(key).domain = None THEN <<>> ELSE PYSONDecode(KeyDef(key).domain)

\* C6: after display() returns with a field, the displayed keys are the
\* keys of the record's value that field.keys defines (every key of the
\* value the schema defines has been added to field.keys); each displayed
\* row is attached to the table, and each entry shows the record's value
\* of its key.
C6_DisplayedKeys ==
    AfterDisplay =>
        LET value == values[record] IN
        /\ DOMAIN self.fields = DOMAIN value \cap field_keys
        /\ (DOMAIN value \ field_keys) \cap SchemaKeys = {}
        /\ self._record_id = record
        /\ \A key \in DOMAIN self.fields :
              /\ self.fields[key].text =
                    EntrySetValueText(self.fields[key], value[key])
              /\ \A i \in 1..3 :
                    /\ self.rows[key][i] \in self.table.children
                    /\ self.rows[key][i] \notin self.destroyed

\* C6 witness: display() of an unchanged record id has removed the row of a
\* key that left the value and shows another key; the value also holds a
\* key without definition, which has no row.
C6_Witness ==
    /\ AfterDisplay
    /\ last.key = record
    /\ last.removed # {}
    /\ DOMAIN self.fields # {}
    /\ "z" \in DOMAIN values[record]
    /\ "z" \notin DOMAIN self.fields

\* C7: after display(), an entry carries the 'invalid' class exactly when
\* the domain of its key is false on the record's whole value; a key
\* without domain is not marked.
C7_InvalidClass ==
    AfterDisplay =>
        \A key \in DOMAIN self.fields :
            /\ self.fields[key].invalid <=>
                  ~eval_domain(DomainOfKey(key), values[record])
            /\ KeyDef(key).domain = None => ~self.fields[key].invalid

\* C7 witness: key "a" (whose domain asks for b = 'x') is displayed and
\* marked invalid next to key "b", which has no domain and is not marked.
C7_Witness ==
    /\ AfterDisplay
    /\ {"a", "b"} \subseteq DOMAIN self.fields
    /\ self.fields["a"].invalid
    /\ ~self.fields["b"].invalid
    /\ values[record]["a"] = PyInt(1)

\* C8: fields, buttons and rows have the same keys; rows[key] is the
\* label, the alignment and the remove button created for the key, and
\* buttons[key] is that button; no widget belongs to two keys.
C8_SameKeys ==
    /\ DOMAIN self.fields = DOMAIN self.buttons
    /\ DOMAIN self.buttons = DOMAIN self.rows
    /\ \A key \in DOMAIN self.rows :
          /\ Len(self.rows[key]) = 3
          /\ self.rows[key][1].kind = "label"
          /\ self.rows[key][2].kind = "alignment"
          /\ self.rows[key][3].kind = "remove"
          /\ self.rows[key][1].row = self.rows[key][3].row
          /\ self.rows[key][2].row = self.rows[key][3].row
          /\ self.buttons[key] = self.rows[key][3]
          /\ self.fields[key].name = key
    /\ \A k1, k2 \in DOMAIN self.rows :
          k1 # k2 => self.rows[k1][3].row # self.rows[k2][3].row

\* C8 witness: a row was removed by the user while another row stays, after
\* rows were added by display and by add_new_keys.
C8_Witness ==
    /\ last.op = "_sig_remove"
    /\ DOMAIN self.fields # {}
    /\ self.table.n_rows >= 4

\* C9: after the user removed a row, the three widgets of the row are out
\* of the table and destroyed, the modification was signalled once, and
\* field.set_client was called once with a dictionary whose keys are the
\* remaining displayed keys and whose values are those of their entries.
C9_RemoveWrites ==
    last.op = "_sig_remove" =>
        /\ last.key \notin DOMAIN self.fields
        /\ Cardinality(last.removed) = 3
        /\ { x.kind : x \in last.removed } = {"label", "alignment", "remove"}
        /\ last.removed \cap self.table.children = {}
        /\ last.removed \subseteq self.destroyed
        /\ last.sm = 1
        /\ Len(last.sc) = 1
        /\ DOMAIN last.sc[1] = DOMAIN self.fields
        /\ \A key \in DOMAIN self.fields :
              last.sc[1][key] = EntryGetValue(self.fields[key])

\* C9 witness: the user removed one of two rows; the dictionary written
\* holds the other key only.
C9_Witness ==
    /\ last.op = "_sig_remove"
    /\ last.key = "a"
    /\ DOMAIN self.fields = {"b"}
    /\ last.sc = << [k \in {"b"} |-> PyStr("x")] >>

NamesOf(ids) == { ids[i] : i \in 1..Len(ids) }

\* C11: add_new_keys(ids) calls add_line once for each returned key that
\* was not displayed, in the order returned, and for no other key; a key
\* that was displayed keeps its entry, its row and its button; the focus
\* is asked (idle_add) for the first added key only, for no entry when no
\* key was added; send_modified is called once and nothing is written.
C11_AddNewKeys ==
    [][last'.op = "add_new_keys" =>
        LET ids == last'.key
            new == NamesOf(ids) \ DOMAIN self.fields
            new_in_order == SelectSeq(ids, LAMBDA k : k \in new)
        IN /\ DOMAIN self'.fields = DOMAIN self.fields \cup NamesOf(ids)
           /\ \A k \in DOMAIN self.fields :
                 /\ self'.fields[k] = self.fields[k]
                 /\ self'.rows[k] = self.rows[k]
                 /\ self'.buttons[k] = self.buttons[k]
           /\ Len(last'.added) = Len(new_in_order)
           /\ \A i \in 1..Len(new_in_order) :
                 last'.added[i].key = new_in_order[i]
           /\ last'.idle = IF new = {} THEN <<>> ELSE <<new_in_order[1]>>
           /\ last'.sm = 1
           /\ last'.sc = <<>>]_vars

\* C11 witness: add_new_keys was handed a displayed key and then a new
\* one: one row was added, the focus was asked for the new key, and the
\* displayed key still shows the text it had.
C11_Witness ==
    /\ last.op = "add_new_keys"
    /\ last.key = <<"a", "b">>
    /\ Len(last.added) = 1
    /\ last.added[1].key = "b"
    /\ last.idle = <<"b">>
    /\ last.sm = 1
    /\ self.fields["a"].text = "1"
    /\ self.rows["a"][1].row < self.rows["b"][1].row

\* While the widget is read-only the search entry is insensitive and not
\* editable and the add button is insensitive, so neither _sig_activate nor
\* the add button nor the completion adds a key; no remove button is
\* sensitive and no entry is editable, also for rows added by a display()
\* that ran while read-only.
ReadOnlyLocksKeys ==
    self._readonly =>
        /\ ~self.wid_text.sensitive
        /\ ~self.wid_text.editable
        /\ ~self.but_add
        /\ \A key \in DOMAIN self.buttons : ~self.sensitive[self.buttons[key]]
        /\ \A key \in DOMAIN self.fields : self.fields[key].readonly

\* _readonly_set has been called since the construction (by a display()).
ReadOnlyWasSet == last.op # "none"

\* While the widget is not read-only the add button follows 'create'.
AddButtonFollowsCreate ==
    (ReadOnlyWasSet /\ ~self._readonly) => (self.but_add <=> attrs.create)

\* While the widget is not read-only every remove button follows 'delete'.
RemoveButtonsFollowDelete ==
    (ReadOnlyWasSet /\ ~self._readonly) =>
        \A key \in DOMAIN self.buttons :
            self.sensitive[self.buttons[key]] <=> attrs.delete

\* C12 (as stated): a read-only widget lets no user event change the set
\* of keys (search entry insensitive and not editable, add button and
\* remove buttons insensitive, entries read-only); a widget that is not
\* read-only has its add button sensitive iff 'create' is true and its
\* remove buttons sensitive iff 'delete' is true.
C12_ReadOnlyAndButtons ==
    /\ ReadOnlyLocksKeys
    /\ AddButtonFollowsCreate
    /\ RemoveButtonsFollowDelete

\* Every widget add_line has attached so far (attached still, or removed
\* and destroyed).
EverAttached == self.table.children \cup self.destroyed

\* C15: the table starts with one row; every step grows the row count by
\* the number of add_line calls it makes, so a removal never reduces it;
\* the k-th add_line of a step attaches its label, editor and remove
\* button at the first row index above every index attached before, hence
\* at an index no earlier add_line used; no two displayed keys occupy the
\* same table row.
C15_TableRows ==
    /\ self.table.n_rows = 1
    /\ [][/\ self'.table.n_rows = self.table.n_rows + Len(last'.added)
          /\ \A i \in 1..Len(last'.added) :
                /\ last'.added[i].row = self.table.n_rows + i - 1
                /\ \A x \in EverAttached : x.row # last'.added[i].row
                /\ \A j \in 1..Len(last'.added) :
                      j # i => last'.added[j].row # last'.added[i].row]_vars
    /\ [](/\ \A x \in EverAttached : x.row < self.table.n_rows
          /\ \A k1, k2 \in DOMAIN self.rows :
                k1 # k2 =>
                    { self.rows[k1][i].row : i \in 1..3 }
                        \cap { self.rows[k2][i].row : i \in 1..3 } = {})

\* C15 witness: after four add_line calls and removals by the user and by
\* display, a step has added a row while another key is displayed; the
\* table has five rows and two of them are occupied.
C15_Witness ==
    /\ self.table.n_rows = 5
    /\ Cardinality(DOMAIN self.rows) = 2
    /\ Cardinality(self.destroyed) = 6
    /\ Len(last.added) = 1
    /\ last.added[1].row = 4

(***************************************************************************)
(* Properties of DictSelectionEntry                                        *)
(***************************************************************************)

\* The items (value, name) of the key's selection.
SelectionItems ==
    { sel.definition.selection[i] : i \in 1..Len(sel.definition.selection) }

\* The text is a prefix of the name, case-insensitively.
MatchesName(text, name) == LowerText(Prefix(name, Len(text))) = LowerText(text)

\* C13 (as stated): for every item (value, name) of the selection,
\* set_value(value) followed by get_value() returns value; set_value of a
\* value of no item, and an empty text, give None; a typed text gives the
\* value of an item whose name starts with the text case-insensitively
\* when there is one (an item whose name has the length of the text when
\* there is one) and None otherwise.
C13_SelectionRoundTrip ==
    sel.got.read =>
        /\ sel.by = "set_value" =>
              IF \E item \in SelectionItems : item[1] = sel.arg
              THEN sel.got.value = sel.arg
              ELSE sel.got.value = None
        /\ sel.text = <<>> => sel.got.value = None
        /\ sel.by = "typed" =>
              LET matches == { item \in SelectionItems :
                                  MatchesName(sel.text, item[2]) }
                  exact == { item \in matches : Len(item[2]) = Len(sel.text) }
              IN IF sel.text = <<>> \/ matches = {} THEN sel.got.value = None
                 ELSE IF exact # {}
                 THEN \E item \in exact : sel.got.value = item[1]
                 ELSE \E item \in matches : sel.got.value = item[1]

\* The selection [('v1', 'A'), ('v2', 'a')]: set_value('v2') shows 'a' and
\* get_value() answers 'v1'.
CaseVariantNamesCollide ==
    /\ sel.definition.selection = << <<"v1", <<"A">> >>, <<"v2", <<"a">> >> >>
    /\ sel.by = "set_value"
    /\ sel.arg = "v2"
    /\ sel.text = <<"a">>
    /\ sel.got = [read |-> TRUE, value |-> "v1"]

(***************************************************************************)
(* Properties of activate_modules                                          *)
(***************************************************************************)

\* The names of the functions the run has called, in order.
CalledNames == [i \in 1..Len(act.calls) |-> act.calls[i].f]

\* s is an initial part of t.
IsPrefix(s, t) == Len(s) <= Len(t) /\ s = SubSeq(t, 1, Len(s))

\* The calls of a run that finds its cache, and of a run that does not.
CallsOnHit == <<"restore_db_cache", "_get_config">>
CallsOnMiss ==
    <<"restore_db_cache", "drop_create", "_get_config", "Module.find",
      "Module.click", "Wizard.execute">>
        \o (IF act.setup_function.callable THEN <<"setup_function">> ELSE <<>>)
        \o <<"backup_db_cache">>

\* C14: restore_db_cache and backup_db_cache are called with cache_name:
\* the cache file name when one is given (and not empty), the module names
\* joined by '-' otherwise, followed by '-' and the qualified name of the
\* setup function when one is given. A run whose restore succeeds calls
\* nothing but _get_config after it and returns. Any other run calls
\* drop_create, the module activation, the upgrade wizard, the setup
\* function (when given) and backup_db_cache in this order, each at most
\* once, and stops at the first call that fails: backup_db_cache is called
\* only after all of them returned, and a run returns only after the backup.
C14_CacheProtocol ==
    act.pc # "idle" =>
        /\ \A i \in 1..Len(act.calls) :
              act.calls[i].f \in {"restore_db_cache", "backup_db_cache"} =>
                  act.calls[i].arg =
                      (IF act.cache_file_name \notin {PyNone, <<>>}
                       THEN act.cache_file_name ELSE Join(act.modules))
                      \o (IF act.setup_function.given
                          THEN <<"-", act.setup_function.qualname>>
                          ELSE <<>>)
        /\ act.hit => IsPrefix(CalledNames, CallsOnHit)
        /\ ~act.hit => IsPrefix(CalledNames, CallsOnMiss)
        /\ (\E i \in 1..Len(act.calls) : act.calls[i].f = "backup_db_cache")
              => /\ CalledNames = CallsOnMiss
                 /\ act.failed \in {None, "backup_db_cache"}
        /\ act.pc = "returned" =>
              /\ act.failed = None
              /\ CalledNames = IF act.hit THEN CallsOnHit ELSE CallsOnMiss
        /\ act.pc = "raised" =>
              /\ act.failed # None
              /\ act.failed # "assert" => CalledNames # <<>>
                    /\ CalledNames[Len(CalledNames)] = act.failed

\* C14 witness: a run for two modules with a setup function and no cache
\* file name missed its cache, ran every step and wrote the backup under
\* 'm1-m2-Case.setup'.
C14_Witness ==
    /\ act.pc = "returned"
    /\ ~act.hit
    /\ act.n = 2
    /\ act.modules = <<"m1", "m2">>
    /\ act.setup_function.callable
    /\ act.cache_file_name = PyNone
    /\ CalledNames = CallsOnMiss
    /\ act.calls[Len(act.calls)] =
          [f |-> "backup_db_cache",
           arg |-> <<"m1", "-", "m2", "-", "Case.setup">>]

\* A run whose setup function failed: no backup was written.
SetupFailedNoBackup ==
    /\ act.pc = "raised"
    /\ act.failed = "setup_function"
    /\ \A i \in 1..Len(act.calls) : act.calls[i].f # "backup_db_cache"

====
